---- MODULE Spec2Model ----
(***************************************************************************)
(* The syllabus relevance scorer of app.py: tokenize, search_syllabus and  *)
(* the request handlers that call it over the shared SYLLABUS_DATA.        *)
(*                                                                         *)
(* A text is a sequence of characters, a character a one-character string  *)
(* (two non-ASCII code points are written by name).  Python objects live   *)
(* in a heap: a dict is a function from field names to values, a list a    *)
(* sequence; a field that holds a catalog-owned list holds a reference.    *)
(***************************************************************************)
EXTENDS Integers, Sequences, FiniteSets, TLC

VARIABLES heap, heap0, data, thr, seen, uploads, req

vars == <<heap, heap0, data, thr, seen, uploads, req>>

(***************************************************************************)
(* Bounds of the model.                                                    *)
(***************************************************************************)
\* longest base sequence of pool entries a catalog is built from
MaxBase == 2
\* longest catalog (longer than the result cap, so that the cap cuts)
MaxCatalog == 9
\* most words in a query text
MaxQueryWords == 2
\* longest catalog of the concurrent specification
MaxConcCatalog == 2
\* request-handling threads of the concurrent specification
NThreads == 2
\* longest text tokenize is tried on
MaxTextLen == 4

(***************************************************************************)
(* Characters and str.lower().                                             *)
(***************************************************************************)
LowerMap ==
    [A |-> "a", B |-> "b", C |-> "c", D |-> "d", E |-> "e", F |-> "f", G |-> "g",
     H |-> "h", I |-> "i", J |-> "j", K |-> "k", L |-> "l", M |-> "m", N |-> "n",
     O |-> "o", P |-> "p", Q |-> "q", R |-> "r", S |-> "s", T |-> "t", U |-> "u",
     V |-> "v", W |-> "w", X |-> "x", Y |-> "y", Z |-> "z"]

UpperLetters == DOMAIN LowerMap

LowerLetters == {LowerMap[c] : c \in UpperLetters}

\* the character class [A-Za-z] of _token_re
AsciiLetters == UpperLetters \cup LowerLetters

\* str.lower() of one character: a sequence, since U+0130 lowers to two code
\* points ("i" and the combining dot U+0307); U+212A (KELVIN SIGN) lowers to "k"
LowerChar(c) ==
    IF c \in UpperLetters THEN <<LowerMap[c]>>
    ELSE IF c = "U+212A" THEN <<"k">>
    ELSE IF c = "U+0130" THEN <<"i", "U+0307">>
    ELSE <<c>>

RECURSIVE LowerText(_)
LowerText(text) ==
    IF text = <<>> THEN <<>>
    ELSE LowerChar(Head(text)) \o LowerText(Tail(text))

STOP_WORDS == {
    <<"t","h","e">>, <<"a","n","d">>, <<"f","o","r">>, <<"w","i","t","h">>,
    <<"t","h","a","t">>, <<"t","h","i","s">>, <<"f","r","o","m">>, <<"t","h","e","y">>,
    <<"t","h","e","i","r">>, <<"t","h","e","m">>, <<"w","h","i","c","h">>,
    <<"s","u","c","h">>, <<"i","n","t","o">>, <<"a","l","s","o">>, <<"b","e","e","n">>,
    <<"w","e","r","e">>, <<"h","a","v","e">>, <<"h","a","s">>, <<"h","a","d">>,
    <<"a","r","e">>, <<"w","a","s">>, <<"b","u","t">>, <<"n","o","t">>, <<"c","a","n">>,
    <<"u","s","e">>, <<"u","s","i","n","g">>, <<"b","e","t","w","e","e","n">>,
    <<"w","i","t","h","i","n">>, <<"y","o","u">>, <<"y","o","u","r">>,
    <<"w","h","a","t">>, <<"h","o","w">>, <<"w","h","y">>, <<"w","h","e","n">>,
    <<"w","h","e","r","e">>, <<"w","h","o">>
}

\* _token_re.findall: the maximal runs of [A-Za-z], left to right
RECURSIVE FindAll(_, _, _, _)
FindAll(text, i, run, acc) ==
    IF i > Len(text)
    THEN IF run = <<>> THEN acc ELSE Append(acc, run)
    ELSE IF text[i] \in AsciiLetters
         THEN FindAll(text, i + 1, Append(run, text[i]), acc)
         ELSE FindAll(text, i + 1, <<>>, IF run = <<>> THEN acc ELSE Append(acc, run))

\* the filter of tokenize's list comprehension
KeepToken(t) == t \notin STOP_WORDS /\ Len(t) > 2

tokenize(text) ==
    SelectSeq(FindAll(LowerText(text), 1, <<>>, <<>>), KeepToken)

\* " ".join(list)
RECURSIVE Join(_)
Join(strs) ==
    IF strs = <<>> THEN <<>>
    ELSE IF Len(strs) = 1 THEN strs[1]
    ELSE strs[1] \o <<" ">> \o Join(Tail(strs))

Range(s) == {s[i] : i \in DOMAIN s}

(***************************************************************************)
(* The heap of Python objects.                                             *)
(***************************************************************************)
Ref(id) == [ref |-> id]

\* None where a list is expected (JSON null)
NullRef == Ref(0)

\* the address of a new object of thread t: the allocator hands thread t the
\* lowest free address of its own arena (the addresses congruent to t)
InArena(i, t) == i % NThreads = t % NThreads

FreshId(h, t) ==
    CHOOSE i \in 1..((Cardinality(DOMAIN h) + 1) * NThreads) :
        /\ i \notin DOMAIN h
        /\ InArena(i, t)
        /\ \A j \in 1..(i - 1) : InArena(j, t) => j \in DOMAIN h

Alloc(h, obj, t) == [heap |-> h @@ (FreshId(h, t) :> obj), id |-> FreshId(h, t)]

\* d[k] = v
SetItem(d, k, v) == [x \in DOMAIN d \cup {k} |-> IF x = k THEN v ELSE d[x]]

\* the heap without the objects ids
Free(h, ids) == [x \in DOMAIN h \ ids |-> h[x]]

(***************************************************************************)
(* json.load of Syllabus_data.json.  The file is a sequence of entry       *)
(* templates: weight is <<>> (absent) or <<n>>; subtopics is absent, null  *)
(* or a list of [name, keywords].  Entry n of the file gets the syllabus   *)
(* reference n, so that the entries of a catalog are told apart.           *)
(***************************************************************************)
\* the objects of the subtopics items, laid out behind object base: for
\* item j its keywords list (base + 2j - 1) and its dict (base + 2j)
SubObjects(items, base) ==
    [i \in 1..(2 * Len(items)) |->
        IF i % 2 = 1 THEN items[(i + 1) \div 2].keywords
        ELSE [name |-> items[i \div 2].name, keywords |-> Ref(base + i - 1)]]

\* the objects of entry n of the file, laid out behind object base: its
\* keywords list, the objects of its subtopics, the subtopics list, its dict
EntryObjects(tmpl, n, base) ==
    LET withK == [syllabus_reference |-> n, keywords |-> Ref(base + 1)]
        withW == IF tmpl.weight = <<>> THEN withK
                 ELSE SetItem(withK, "weight", tmpl.weight[1])
        k     == Len(tmpl.subtopics.items)
    IN  CASE tmpl.subtopics.kind = "absent" -> <<tmpl.keywords, withW>>
          [] tmpl.subtopics.kind = "null" ->
                <<tmpl.keywords, SetItem(withW, "subtopics", NullRef)>>
          [] tmpl.subtopics.kind = "list" ->
                <<tmpl.keywords>>
                \o SubObjects(tmpl.subtopics.items, base + 1)
                \o <<[j \in 1..k |-> Ref(base + 1 + 2 * j)],
                     SetItem(withW, "subtopics", Ref(base + 2 * k + 2))>>

\* the number of objects of a template
EntrySize(tmpl) ==
    IF tmpl.subtopics.kind = "list" THEN 2 * Len(tmpl.subtopics.items) + 3 ELSE 2

\* the number of objects of the first n templates
RECURSIVE SizeUpTo(_, _)
SizeUpTo(tmpls, n) ==
    IF n = 0 THEN 0 ELSE SizeUpTo(tmpls, n - 1) + EntrySize(tmpls[n])

RECURSIVE LoadAll(_, _)
LoadAll(tmpls, n) ==
    IF n = 0 THEN <<>>
    ELSE LoadAll(tmpls, n - 1) \o EntryObjects(tmpls[n], n, SizeUpTo(tmpls, n - 1))

\* SYLLABUS_DATA = json.load(f): the heap, and the list of the entries' dicts
LoadCatalog(tmpls) ==
    [heap |-> LoadAll(tmpls, Len(tmpls)),
     data |-> [n \in 1..Len(tmpls) |-> SizeUpTo(tmpls, n)]]

(***************************************************************************)
(* search_syllabus.                                                        *)
(***************************************************************************)
ResultCap == 8

\* a slip: entry["weight"], which raises KeyError where the entry has no weight
GetWeightSubscript(entry) ==
    IF "weight" \in DOMAIN entry THEN [raised |-> FALSE, val |-> entry.weight]
    ELSE [raised |-> TRUE, val |-> 0]

\* entry.get("weight", 1)
GetWeight(entry) ==
    IF "weight" \in DOMAIN entry THEN [raised |-> FALSE, val |-> entry.weight]
    ELSE [raised |-> FALSE, val |-> 1]

\* x.get("keywords", []), as the list's value
GetKeywords(h, d) == IF "keywords" \in DOMAIN d THEN h[d.keywords.ref] ELSE <<>>

\* iter(entry.get("subtopics", [])): iterating None raises TypeError
GetSubtopics(h, entry) ==
    IF "subtopics" \notin DOMAIN entry THEN [raised |-> FALSE, val |-> <<>>]
    ELSE IF entry.subtopics = NullRef THEN [raised |-> TRUE, val |-> <<>>]
    ELSE [raised |-> FALSE, val |-> h[entry.subtopics.ref]]

\* sub.get("name")
GetName(sub) == IF "name" \in DOMAIN sub THEN sub.name ELSE "None"

\* the condition of the generator: t in tokens
Matches(t, tokens) == t \in Range(tokens)

\* a slip: every matching token counted once, however often the query has it
SumWeightDeduplicated(weight, q_tokens, tokens) ==
    weight * Cardinality(Range(q_tokens) \cap Range(tokens))

\* sum(weight for t in q_tokens if t in tokens)
RECURSIVE SumWeight(_, _, _)
SumWeight(weight, q_tokens, tokens) ==
    IF q_tokens = <<>> THEN 0
    ELSE (IF Matches(Head(q_tokens), tokens) THEN weight ELSE 0)
         + SumWeight(weight, Tail(q_tokens), tokens)

\* a slip: the test left out
TruthyAlways(n) == TRUE

\* if sub_score: / if score:
Truthy(n) == n # 0

\* a slip: the subtopics never looked at
SubLoopSkipped(h, weight, q_tokens, subs, i, score, matched_sub) ==
    [score |-> score, matched_sub |-> matched_sub]

\* the loop over the subtopics of one entry, from subtopic i on
RECURSIVE SubLoop(_, _, _, _, _, _, _)
SubLoop(h, weight, q_tokens, subs, i, score, matched_sub) ==
    IF i > Len(subs) THEN [score |-> score, matched_sub |-> matched_sub]
    ELSE LET sub       == h[subs[i].ref]
             st        == tokenize(Join(GetKeywords(h, sub)))
             sub_score == SumWeight(weight, q_tokens, st)
         IN  IF Truthy(sub_score)
             THEN SubLoop(h, weight, q_tokens, subs, i + 1, score + sub_score,
                          Append(matched_sub, GetName(sub)))
             ELSE SubLoop(h, weight, q_tokens, subs, i + 1, score, matched_sub)

\* one iteration of "for entry in data": the hits after entry id
HitsStep(h, q_tokens, id, hits) ==
    LET entry == h[id]
        w     == GetWeight(entry)
        subs  == GetSubtopics(h, entry)
    IN  IF w.raised \/ subs.raised THEN [raised |-> TRUE, hits |-> hits]
        ELSE LET e_tokens == tokenize(Join(GetKeywords(h, entry)))
                 score    == SumWeight(w.val, q_tokens, e_tokens)
                 s        == SubLoop(h, w.val, q_tokens, subs.val, 1, score, <<>>)
             IN  [raised |-> FALSE,
                  hits   |-> IF Truthy(s.score)
                             THEN Append(hits, [score |-> s.score, entry |-> id,
                                                matched_sub |-> s.matched_sub])
                             ELSE hits]

RECURSIVE HitsLoop(_, _, _, _, _)
HitsLoop(h, q_tokens, dat, i, hits) ==
    IF i > Len(dat) THEN [raised |-> FALSE, hits |-> hits]
    ELSE LET s == HitsStep(h, q_tokens, dat[i], hits)
         IN  IF s.raised THEN s ELSE HitsLoop(h, q_tokens, dat, i + 1, s.hits)

\* a slip: reverse=True left out
StaysBehindAscending(x, y) == y.score <= x.score

\* a slip: equal scores change places
StaysBehindStrict(x, y) == y.score > x.score

\* the order of hits.sort(reverse=True, key=score): x stays behind y
StaysBehind(x, y) == y.score >= x.score

\* x inserted behind the last element it stays behind: the sort is stable
RECURSIVE InsertHit(_, _)
InsertHit(sorted, x) ==
    IF sorted = <<>> THEN <<x>>
    ELSE IF StaysBehind(x, Head(sorted))
         THEN <<Head(sorted)>> \o InsertHit(Tail(sorted), x)
         ELSE <<x>> \o sorted

RECURSIVE SortFrom(_, _, _)
SortFrom(hits, i, sorted) ==
    IF i > Len(hits) THEN sorted
    ELSE SortFrom(hits, i + 1, InsertHit(sorted, hits[i]))

\* a slip: the sort left out
SortHitsNone(hits) == hits

\* hits.sort(reverse=True, key=lambda x: x[0])
SortHits(hits) == SortFrom(hits, 1, <<>>)

\* a slip: the slice left out
SliceAll(hits) == hits

\* hits[:8]
Slice(hits) == SubSeq(hits, 1, IF Len(hits) < ResultCap THEN Len(hits) ELSE ResultCap)

\* a slip: e = entry, the catalog's own dict
EntryCopyAlias(h, id, t) == [heap |-> h, id |-> id]

\* e = entry.copy(): a new dict with the same items (a shallow copy)
EntryCopy(h, id, t) == Alloc(h, h[id], t)

\* one iteration of the result loop: the copy of the hit's entry, with its
\* score and, when there are any, its matched subtopics
BuildStep(h, hit, t) ==
    LET c  == EntryCopy(h, hit.entry, t)
        e1 == SetItem(c.heap[c.id], "score", hit.score)
        e2 == IF hit.matched_sub # <<>>
              THEN SetItem(e1, "matched_subtopics", hit.matched_sub)
              ELSE e1
    IN  [heap |-> [c.heap EXCEPT ![c.id] = e2], id |-> c.id]

RECURSIVE BuildLoop(_, _, _, _, _)
BuildLoop(h, top, k, result, t) ==
    IF k > Len(top) THEN [heap |-> h, result |-> result]
    ELSE LET b == BuildStep(h, top[k], t)
         IN  BuildLoop(b.heap, top, k + 1, Append(result, b.id), t)

\* search_syllabus(query, data), run by thread t on heap h
search_syllabus(h, query, dat, t) ==
    LET lp == HitsLoop(h, tokenize(query), dat, 1, <<>>)
    IN  IF lp.raised THEN [raised |-> TRUE, heap |-> h, result |-> <<>>]
        ELSE LET b == BuildLoop(h, Slice(SortHits(lp.hits)), 1, <<>>, t)
             IN  [raised |-> FALSE, heap |-> b.heap, result |-> b.result]

(***************************************************************************)
(* The inputs: catalogs and query texts.                                   *)
(***************************************************************************)
K_cat == <<"c", "a", "t">>
K_DogOx == <<"D", "o", "g", " ", "o", "x">>
K_emu == <<"e", "m", "u">>

NoSubs == [kind |-> "absent", items |-> <<>>]
NullSubs == [kind |-> "null", items |-> <<>>]
Subs(items) == [kind |-> "list", items |-> items]

Sub1(kws) == [name |-> "S1", keywords |-> kws]
Sub2(kws) == [name |-> "S2", keywords |-> kws]

\* the entries a catalog is made of
E_plain == [weight |-> <<1>>, keywords |-> <<K_cat>>, subtopics |-> NoSubs]

E_heavy == [weight |-> <<5>>, keywords |-> <<K_cat>>, subtopics |-> Subs(<<>>)]

E_default == [weight |-> <<>>, keywords |-> <<K_DogOx, K_emu>>,
              subtopics |-> Subs(<<Sub1(<<K_cat>>)>>)]

E_subs == [weight |-> <<1>>, keywords |-> <<K_emu>>,
           subtopics |-> Subs(<<Sub1(<<K_cat>>), Sub2(<<K_DogOx>>)>>)]

E_zero == [weight |-> <<0>>, keywords |-> <<K_cat>>,
           subtopics |-> Subs(<<Sub1(<<K_DogOx>>)>>)]

\* ill-typed: "subtopics": null
E_null == [weight |-> <<1>>, keywords |-> <<K_cat>>, subtopics |-> NullSubs]

Pool == {E_plain, E_heavy, E_default, E_subs, E_zero, E_null}

\* base repeated up to length n
Cycle(base, n) == [i \in 1..n |-> base[((i - 1) % Len(base)) + 1]]

SeqsUpTo(S, n) == UNION {[1..m -> S] : m \in 1..n}

\* every catalog of up to MaxBase entries, and those repeated to more entries
\* than the cap lets through
Catalogs ==
    {<<>>} \cup SeqsUpTo(Pool, MaxBase)
    \cup {Cycle(b, n) : b \in SeqsUpTo(Pool, MaxBase), n \in (ResultCap + 1)..MaxCatalog}

ConcPool == {E_heavy, E_default}

ConcCatalogs == {<<>>} \cup SeqsUpTo(ConcPool, MaxConcCatalog)

QWords == { <<"t", "h", "e", " ", "C", "a", "t">>, <<"d", "o", "g">>,
            <<"o", "x", "1", "e", "m", "u">> }

Queries == {<<>>} \cup {Join(ws) : ws \in SeqsUpTo(QWords, MaxQueryWords)}

ConcQueries == { <<"C", "a", "t">>, <<"o", "x", "1", "e", "m", "u">> }

Threads == 1..NThreads

(***************************************************************************)
(* The state: the heap, SYLLABUS_DATA (data, the ids of its entries), the  *)
(* position and locals of every request-handling thread, and two history   *)
(* variables: heap0, the heap as loaded, and seen, the query and outcome   *)
(* of the first call answered.                                             *)
(***************************************************************************)
\* the file names clients send with their images
Filenames == {"a.png", "b.png"}

\* the images clients upload: an image is the text tesseract reads from it
Images == {[text |-> <<"C", "a", "t", "\n">>],
           [text |-> <<" ", "o", "x", "1", "e", "m", "u", "\n">>]}

\* a path of the uploads folder with no file at it
NoFile == [text |-> "none"]

Routes == {"/upload", "/api/upload"}

\* the catalog the upload requests are served from
UploadCatalog == <<E_heavy, E_default>>

\* a thread that serves no upload request
IdleReq == [pc |-> "idle", route |-> "", filename |-> "", image |-> NoFile,
            ocr_text |-> <<>>, answered |-> FALSE, response |-> [status |-> 0]]

Idle == [pc |-> "idle", query |-> <<>>, q_tokens |-> <<>>, idx |-> 0,
         hits |-> <<>>, result |-> <<>>]

InitWith(tmpls) ==
    LET l == LoadCatalog(tmpls)
    IN  /\ heap = l.heap
        /\ heap0 = l.heap
        /\ data = l.data
        /\ thr = [t \in Threads |-> Idle]
        /\ seen = {}
        /\ uploads = [n \in Filenames |-> NoFile]
        /\ req = [t \in Threads |-> IdleReq]

Init == \E c \in Catalogs : InitWith(c)

InitConc == \E c \in ConcCatalogs : InitWith(c)

InitUpload == InitWith(UploadCatalog)

\* the objects the garbage collector never frees: those SYLLABUS_DATA reaches
CatalogObjects == DOMAIN heap0

\* a keywords list, a subtopic and a dict by value
SubValue(h, sub) ==
    [k \in DOMAIN sub |-> IF k = "keywords" THEN h[sub[k].ref] ELSE sub[k]]

DictValue(h, d) ==
    [k \in DOMAIN d |->
        IF k = "keywords" THEN h[d[k].ref]
        ELSE IF k = "subtopics"
             THEN IF d[k] = NullRef THEN <<>>
                  ELSE [i \in DOMAIN h[d[k].ref] |-> SubValue(h, h[h[d[k].ref][i].ref])]
             ELSE d[k]]

\* what a call hands back, by value
Outcome(h, t) ==
    [raised |-> thr[t].pc = "raised",
     result |-> [i \in DOMAIN thr[t].result |-> DictValue(h, h[thr[t].result[i]])]]

(***************************************************************************)
(* A request that runs search_syllabus(ocr_text, SYLLABUS_DATA) alone.     *)
(***************************************************************************)
Call(t, q) ==
    /\ thr[t].pc = "idle"
    /\ LET out == search_syllabus(heap, q, data, t)
       IN  /\ heap' = out.heap
           /\ thr' = [thr EXCEPT ![t] = [Idle EXCEPT
                         !.pc = IF out.raised THEN "raised" ELSE "returned",
                         !.query = q, !.result = out.result]]
    /\ UNCHANGED <<heap0, data, seen, uploads, req>>

\* the response is sent and the result list becomes garbage
Discard(t) ==
    /\ thr[t].pc \in {"returned", "raised"}
    /\ heap' = Free(heap, Range(thr[t].result) \ CatalogObjects)
    /\ thr' = [thr EXCEPT ![t] = Idle]
    /\ UNCHANGED <<heap0, data, seen, uploads, req>>

Next == \/ \E q \in Queries : Call(1, q)
        \/ Discard(1)

Spec == Init /\ [][Next]_vars

(***************************************************************************)
(* Concurrent requests: search_syllabus one loop iteration at a time.      *)
(***************************************************************************)
Begin(t, q) ==
    /\ thr[t].pc = "idle"
    /\ thr' = [thr EXCEPT ![t] = [Idle EXCEPT !.pc = "loop", !.query = q,
                                  !.q_tokens = tokenize(q), !.idx = 1]]
    /\ UNCHANGED <<heap, heap0, data, seen, uploads, req>>

LoopStep(t) ==
    /\ thr[t].pc = "loop"
    /\ thr[t].idx <= Len(data)
    /\ LET s == HitsStep(heap, thr[t].q_tokens, data[thr[t].idx], thr[t].hits)
       IN  thr' = [thr EXCEPT ![t] =
                     IF s.raised
                     THEN [Idle EXCEPT !.pc = "raised", !.query = thr[t].query]
                     ELSE [@ EXCEPT !.hits = s.hits, !.idx = @ + 1]]
    /\ UNCHANGED <<heap, heap0, data, seen, uploads, req>>

SortStep(t) ==
    /\ thr[t].pc = "loop"
    /\ thr[t].idx > Len(data)
    /\ thr' = [thr EXCEPT ![t] = [@ EXCEPT !.pc = "build", !.idx = 1,
                                  !.hits = Slice(SortHits(thr[t].hits))]]
    /\ UNCHANGED <<heap, heap0, data, seen, uploads, req>>

ResultStep(t) ==
    /\ thr[t].pc = "build"
    /\ thr[t].idx <= Len(thr[t].hits)
    /\ LET b == BuildStep(heap, thr[t].hits[thr[t].idx], t)
       IN  /\ heap' = b.heap
           /\ thr' = [thr EXCEPT ![t] = [@ EXCEPT !.idx = @ + 1,
                                         !.result = Append(@, b.id)]]
    /\ UNCHANGED <<heap0, data, seen, uploads, req>>

Return(t) ==
    /\ thr[t].pc = "build"
    /\ thr[t].idx > Len(thr[t].hits)
    /\ thr' = [thr EXCEPT ![t] = [Idle EXCEPT !.pc = "returned",
                                  !.query = thr[t].query, !.result = thr[t].result]]
    /\ UNCHANGED <<heap, heap0, data, seen, uploads, req>>

\* the response is sent: the result list is garbage (the first outcome is kept
\* on record)
Respond(t) ==
    /\ thr[t].pc \in {"returned", "raised"}
    /\ seen' = IF seen = {}
               THEN {[query |-> thr[t].query, outcome |-> Outcome(heap, t)]}
               ELSE seen
    /\ heap' = Free(heap, Range(thr[t].result) \ CatalogObjects)
    /\ thr' = [thr EXCEPT ![t] = Idle]
    /\ UNCHANGED <<heap0, data, uploads, req>>

NextConc ==
    \E t \in Threads :
        \/ \E q \in ConcQueries : Begin(t, q)
        \/ LoopStep(t)
        \/ SortStep(t)
        \/ ResultStep(t)
        \/ Return(t)
        \/ Respond(t)

SpecConc == InitConc /\ [][NextConc]_vars

(***************************************************************************)
(* upload() and api_upload(), one step per statement that reads or writes  *)
(* what the handlers share: the uploads folder and the heap.  The handlers *)
(* of the threaded server run these steps interleaved.  f.save(path) is    *)
(* taken as one step.                                                      *)
(***************************************************************************)
Whitespace == {" ", "\n"}

\* str.strip()
RECURSIVE Strip(_)
Strip(text) ==
    IF text = <<>> THEN <<>>
    ELSE IF Head(text) \in Whitespace THEN Strip(Tail(text))
    ELSE IF text[Len(text)] \in Whitespace THEN Strip(SubSeq(text, 1, Len(text) - 1))
    ELSE text

\* pytesseract.image_to_string(Image.open(path))
image_to_string(file) == file.text

\* the handler is entered: without an "image" part it answers 400, else it holds
\* f = request.files["image"]
Receive(t, route, hasFile, name, img) ==
    /\ req[t].pc = "idle"
    /\ req' = [req EXCEPT ![t] =
                 IF hasFile
                 THEN [IdleReq EXCEPT !.pc = "save", !.route = route,
                                      !.filename = name, !.image = img]
                 ELSE [IdleReq EXCEPT !.pc = "done", !.route = route,
                                      !.response = [status |-> 400]]]
    /\ UNCHANGED <<heap, heap0, data, thr, seen, uploads>>

\* path = os.path.join(UPLOAD_FOLDER, f.filename); f.save(path)
Save(t) ==
    /\ req[t].pc = "save"
    /\ uploads' = [uploads EXCEPT ![req[t].filename] = req[t].image]
    /\ req' = [req EXCEPT ![t].pc = "ocr"]
    /\ UNCHANGED <<heap, heap0, data, thr, seen>>

\* ocr_text = pytesseract.image_to_string(Image.open(path)).strip()
Ocr(t) ==
    /\ req[t].pc = "ocr"
    /\ req' = [req EXCEPT ![t].pc = "ask",
                          ![t].ocr_text = Strip(image_to_string(uploads[req[t].filename]))]
    /\ UNCHANGED <<heap, heap0, data, thr, seen, uploads>>

\* client.chat.completions.create(...): an answer to the prompt, or an exception
Ask(t, ok) ==
    /\ req[t].pc = "ask"
    /\ req' = [req EXCEPT ![t] =
                 IF ok THEN [@ EXCEPT !.pc = "search", !.answered = TRUE]
                 ELSE [@ EXCEPT !.pc = "done", !.response = [status |-> 500]]]
    /\ UNCHANGED <<heap, heap0, data, thr, seen, uploads>>

\* syllabus_hits = search_syllabus(ocr_text, SYLLABUS_DATA)
Search(t) ==
    /\ req[t].pc = "search"
    /\ thr[t].pc = "idle"
    /\ LET out == search_syllabus(heap, req[t].ocr_text, data, t)
       IN  IF out.raised
           THEN /\ req' = [req EXCEPT ![t].pc = "done",
                                      ![t].response = [status |-> 500]]
                /\ UNCHANGED <<heap, thr>>
           ELSE /\ heap' = out.heap
                /\ thr' = [thr EXCEPT ![t] = [Idle EXCEPT !.pc = "returned",
                               !.query = req[t].ocr_text, !.result = out.result]]
                /\ req' = [req EXCEPT ![t].pc = "render"]
    /\ UNCHANGED <<heap0, data, seen, uploads>>

\* return render_template_string(RESULT_HTML, ...) / return jsonify({...}):
\* the response is written out and the result list becomes garbage
Render(t) ==
    /\ req[t].pc = "render"
    /\ req' = [req EXCEPT ![t].pc = "done",
                          ![t].response = [status |-> 200,
                                           ocr_text |-> req[t].ocr_text,
                                           syllabus_hits |-> Outcome(heap, t).result]]
    /\ heap' = Free(heap, Range(thr[t].result) \ CatalogObjects)
    /\ thr' = [thr EXCEPT ![t] = Idle]
    /\ UNCHANGED <<heap0, data, seen, uploads>>

\* the client has its response; the thread serves the next request
Finish(t) ==
    /\ req[t].pc = "done"
    /\ req' = [req EXCEPT ![t] = IdleReq]
    /\ UNCHANGED <<heap, heap0, data, thr, seen, uploads>>

NextUpload ==
    \E t \in Threads :
        \/ \E route \in Routes, hasFile \in BOOLEAN, name \in Filenames, img \in Images :
              Receive(t, route, hasFile, name, img)
        \/ Save(t)
        \/ Ocr(t)
        \/ \E ok \in BOOLEAN : Ask(t, ok)
        \/ Search(t)
        \/ Render(t)
        \/ Finish(t)

SpecUpload == InitUpload /\ [][NextUpload]_vars

(***************************************************************************)
(* What the claims speak of.                                               *)
(***************************************************************************)
Returned(t) == thr[t].pc = "returned"

Answered(t) == thr[t].pc \in {"returned", "raised"}

\* the i-th dict of the list thread t got back
ResultDict(t, i) == heap[thr[t].result[i]]

QueryTokens(t) == tokenize(thr[t].query)

\* the tokens of the keywords of a dict (an entry or a subtopic)
KeywordTokens(h, d) == tokenize(Join(GetKeywords(h, d)))

\* the number of query-token occurrences (duplicates counted) among tokens
Occurrences(q_tokens, tokens) ==
    Cardinality({i \in DOMAIN q_tokens : q_tokens[i] \in Range(tokens)})

WeightOf(d) == IF "weight" \in DOMAIN d THEN d.weight ELSE 1

\* the subtopic dicts of an entry
SubDicts(h, d) ==
    IF "subtopics" \in DOMAIN d /\ d.subtopics # NullRef
    THEN [i \in DOMAIN h[d.subtopics.ref] |-> h[h[d.subtopics.ref][i].ref]]
    ELSE <<>>

RECURSIVE SumSeq(_)
SumSeq(s) == IF s = <<>> THEN 0 ELSE Head(s) + SumSeq(Tail(s))

SubOccurrences(h, d, q_tokens) ==
    [i \in DOMAIN SubDicts(h, d) |->
        Occurrences(q_tokens, KeywordTokens(h, SubDicts(h, d)[i]))]

\* occurrences among the entry's keywords plus, per subtopic, among its keywords
TotalOccurrences(h, d, q_tokens) ==
    Occurrences(q_tokens, KeywordTokens(h, d)) + SumSeq(SubOccurrences(h, d, q_tokens))

ClaimedScore(h, d, q_tokens) == WeightOf(d) * TotalOccurrences(h, d, q_tokens)

\* no entry of the catalog has "subtopics": null
WellTyped ==
    \A n \in DOMAIN data :
        "subtopics" \in DOMAIN heap0[data[n]] => heap0[data[n]].subtopics # NullRef

\* the entries of the catalog that score
Scoring(q_tokens) ==
    {n \in DOMAIN data : ClaimedScore(heap0, heap0[data[n]], q_tokens) # 0}

\* C1: the list search_syllabus returns has at most 8 elements, whatever the
\* query and the catalog.
C1_AtMostEight ==
    \A t \in Threads : Returned(t) => Len(thr[t].result) <= 8

\* a catalog with more than 8 scoring entries was searched and 8 came back
C1_Witness ==
    \E t \in Threads :
        /\ Returned(t)
        /\ Cardinality(Scoring(QueryTokens(t))) > 8
        /\ Len(thr[t].result) = 8

\* C2: the scores of the returned list are in non-increasing order.
C2_ScoresNonIncreasing ==
    \A t \in Threads :
        Returned(t) =>
            \A i, j \in DOMAIN thr[t].result :
                i < j => ResultDict(t, i).score >= ResultDict(t, j).score

\* a returned list in which a later catalog entry, of a higher score, comes first
C2_Witness ==
    \E t \in Threads :
        /\ Returned(t)
        /\ \E i, j \in DOMAIN thr[t].result :
              /\ i < j
              /\ ResultDict(t, i).score > ResultDict(t, j).score
              /\ ResultDict(t, i).syllabus_reference > ResultDict(t, j).syllabus_reference

\* C3: the score of every returned entry is its weight times the number of
\* query-token occurrences among its keyword tokens plus, summed over its
\* subtopics, among each subtopic's keyword tokens.
C3_ScoreIsWeightTimesOccurrences ==
    \A t \in Threads :
        Returned(t) =>
            \A i \in DOMAIN thr[t].result :
                ResultDict(t, i).score =
                    ClaimedScore(heap, ResultDict(t, i), QueryTokens(t))

\* a returned list with an entry of weight 5 and score 5, and one that scores on
\* its keywords and on a subtopic
C3_Witness ==
    \E t \in Threads :
        /\ Returned(t)
        /\ \E i \in DOMAIN thr[t].result :
              WeightOf(ResultDict(t, i)) = 5 /\ ResultDict(t, i).score = 5
        /\ \E i \in DOMAIN thr[t].result :
              /\ "matched_subtopics" \in DOMAIN ResultDict(t, i)
              /\ Occurrences(QueryTokens(t), KeywordTokens(heap, ResultDict(t, i))) > 0

\* the query of thread t shares no token with the keywords of any entry or
\* subtopic of the catalog
NoOverlap(t) ==
    \A n \in DOMAIN data :
        /\ Range(QueryTokens(t)) \cap Range(KeywordTokens(heap0, heap0[data[n]])) = {}
        /\ \A k \in DOMAIN SubDicts(heap0, heap0[data[n]]) :
              Range(QueryTokens(t))
                \cap Range(KeywordTokens(heap0, SubDicts(heap0, heap0[data[n]])[k])) = {}

\* C4: a query whose tokens overlap the keyword tokens of no entry and no subtopic
\* gets the empty list, and the call does not fail (the catalog being well-typed).
C4_NoOverlapGivesEmptyList ==
    \A t \in Threads :
        (Answered(t) /\ WellTyped /\ NoOverlap(t)) =>
            (Returned(t) /\ thr[t].result = <<>>)

\* a query with tokens, none of them in a catalog of two entries, came back empty
C4_Witness ==
    \E t \in Threads :
        /\ Returned(t)
        /\ WellTyped
        /\ NoOverlap(t)
        /\ QueryTokens(t) # <<>>
        /\ Len(data) >= 2
        /\ thr[t].result = <<>>

\* the score the catalog entry n has for the query of thread t
ScoreOf(n, t) == ClaimedScore(heap0, heap0[data[n]], QueryTokens(t))

\* the subtopics of catalog entry n that the query of thread t matches
MatchingSubs(n, t) ==
    {k \in DOMAIN SubDicts(heap0, heap0[data[n]]) :
        SubOccurrences(heap0, heap0[data[n]], QueryTokens(t))[k] > 0}

\* entry n matches the query on none of its own keywords and on one subtopic
SubtopicOnly(n, t) ==
    /\ Occurrences(QueryTokens(t), KeywordTokens(heap0, heap0[data[n]])) = 0
    /\ Cardinality(MatchingSubs(n, t)) = 1

\* entry n is in the list thread t got back, with the score that its one matching
\* subtopic contributes and with that subtopic's name as its matched subtopics
ListedWithSubtopic(n, t) ==
    \E i \in DOMAIN thr[t].result :
        LET k == CHOOSE k \in MatchingSubs(n, t) : TRUE
        IN  /\ ResultDict(t, i).syllabus_reference = n
            /\ ResultDict(t, i).score =
                  WeightOf(heap0[data[n]])
                    * SubOccurrences(heap0, heap0[data[n]], QueryTokens(t))[k]
            /\ "matched_subtopics" \in DOMAIN ResultDict(t, i)
            /\ ResultDict(t, i).matched_subtopics =
                  <<SubDicts(heap0, heap0[data[n]])[k].name>>

\* the place of the scoring entry n in the ranking: behind the entries of a
\* higher score and the earlier entries of the same score
Rank(n, t) ==
    1 + Cardinality({m \in Scoring(QueryTokens(t)) :
                        \/ ScoreOf(m, t) > ScoreOf(n, t)
                        \/ ScoreOf(m, t) = ScoreOf(n, t) /\ m < n})

\* C5, as claimed: an entry with no match on its own keywords and one matching
\* subtopic is in the result, with the subtopic's contribution as its score and the
\* subtopic's name as matched.
C5_Claimed ==
    \A t \in Threads :
        Returned(t) =>
            \A n \in DOMAIN data : SubtopicOnly(n, t) => ListedWithSubtopic(n, t)

\* C5, amended: such an entry is in the result, with that score and that name,
\* whenever its weight is not 0 and fewer than 8 entries rank before it.
C5_SubtopicOnlyListedWithinCap ==
    \A t \in Threads :
        Returned(t) =>
            \A n \in DOMAIN data :
                (SubtopicOnly(n, t) /\ WeightOf(heap0[data[n]]) # 0 /\ Rank(n, t) <= 8)
                    => ListedWithSubtopic(n, t)

\* such an entry came back behind an entry that matched on its own keywords
C5_Witness ==
    \E t \in Threads :
        /\ Returned(t)
        /\ \E n \in DOMAIN data :
              /\ SubtopicOnly(n, t)
              /\ WeightOf(heap0[data[n]]) # 0
              /\ Rank(n, t) > 1
              /\ ListedWithSubtopic(n, t)

\* entries m and n, of weight 5 and of weight 1, match the query of thread t the
\* same number of times, and at least once
SameOverlap(m, n, t) ==
    /\ WeightOf(heap0[data[m]]) = 5
    /\ WeightOf(heap0[data[n]]) = 1
    /\ TotalOccurrences(heap0, heap0[data[m]], QueryTokens(t))
         = TotalOccurrences(heap0, heap0[data[n]], QueryTokens(t))
    /\ TotalOccurrences(heap0, heap0[data[n]], QueryTokens(t)) > 0

\* C6: of two entries with the same, non-zero overlap with the query, one of
\* weight 5 and one of weight 1, the weight-5 entry ranks strictly higher: where the
\* weight-1 entry is in the result, the weight-5 entry is before it, with a higher
\* score.
C6_WeightFiveRanksHigher ==
    \A t \in Threads :
        Returned(t) =>
            \A m, n \in DOMAIN data :
                SameOverlap(m, n, t) =>
                    \A j \in DOMAIN thr[t].result :
                        ResultDict(t, j).syllabus_reference = n =>
                            \E i \in 1..(j - 1) :
                                /\ ResultDict(t, i).syllabus_reference = m
                                /\ ResultDict(t, i).score > ResultDict(t, j).score

\* both came back, the weight-5 entry being the later one in the catalog
C6_Witness ==
    \E t \in Threads :
        /\ Returned(t)
        /\ \E m, n \in DOMAIN data :
              /\ SameOverlap(m, n, t)
              /\ n < m
              /\ \E i, j \in DOMAIN thr[t].result :
                    /\ ResultDict(t, i).syllabus_reference = m
                    /\ ResultDict(t, j).syllabus_reference = n

\* the catalog as loaded with the defaults written out: "weight": 1 where an
\* entry has no weight, "subtopics": [] (one empty list) where it has no subtopics
ExplicitDefaults(h) ==
    [i \in 1..(Len(h) + 1) |->
        IF i = Len(h) + 1 THEN <<>>
        ELSE IF i \in Range(data)
             THEN LET w == IF "weight" \in DOMAIN h[i] THEN h[i]
                           ELSE SetItem(h[i], "weight", 1)
                  IN  IF "subtopics" \in DOMAIN w THEN w
                      ELSE SetItem(w, "subtopics", Ref(Len(h) + 1))
             ELSE h[i]]

\* the references, scores and matched subtopics of a result list
Summary(h, ids) ==
    [i \in DOMAIN ids |->
        <<h[ids[i]].syllabus_reference, h[ids[i]].score,
          IF "matched_subtopics" \in DOMAIN h[ids[i]]
          THEN h[ids[i]].matched_subtopics ELSE <<>> >>]

\* C9: on a well-typed catalog search_syllabus returns a list and never raises;
\* the list is the one it returns with "weight": 1 and "subtopics": [] written
\* out in the entries that lack them.
C9_TotalWithDefaults ==
    \A t \in Threads :
        (Answered(t) /\ WellTyped) =>
            /\ Returned(t)
            /\ LET o == search_syllabus(ExplicitDefaults(heap0), thr[t].query, data, t)
               IN  Summary(heap, thr[t].result) = Summary(o.heap, o.result)

\* an entry without weight and an entry without subtopics came back
C9_Witness ==
    \E t \in Threads :
        /\ Returned(t)
        /\ WellTyped
        /\ \E i \in DOMAIN thr[t].result : "weight" \notin DOMAIN ResultDict(t, i)
        /\ \E i \in DOMAIN thr[t].result : "subtopics" \notin DOMAIN ResultDict(t, i)

\* every object of the catalog is as it was loaded
CatalogUnchanged ==
    \A id \in DOMAIN heap0 : id \in DOMAIN heap /\ heap[id] = heap0[id]

\* no entry of the catalog carries a field that search_syllabus adds to results
NoAddedFields ==
    \A n \in DOMAIN data :
        /\ "score" \notin DOMAIN heap[data[n]]
        /\ "matched_subtopics" \notin DOMAIN heap[data[n]]

\* the threads that hold a result list, complete or under construction
Holding == {t \in Threads : thr[t].pc \in {"build", "returned"}}

\* the i-th result of thread t is a dict of its own, not an object of the
\* catalog, with every item of its source entry and nothing else but score and
\* matched_subtopics
DerivedCopy(t, i) ==
    LET r == ResultDict(t, i)
        e == heap[data[r.syllabus_reference]]
    IN  /\ thr[t].result[i] \notin CatalogObjects
        /\ \A u \in Holding : \A j \in DOMAIN thr[u].result :
              thr[u].result[j] = thr[t].result[i] => (u = t /\ j = i)
        /\ DOMAIN e \subseteq DOMAIN r
        /\ DOMAIN r \subseteq DOMAIN e \cup {"score", "matched_subtopics"}
        /\ \A k \in DOMAIN e : r[k] = e[k]

\* the i-th result of thread t holds no list that the catalog holds
SharesNothing(t, i) ==
    /\ ResultDict(t, i).keywords.ref \notin CatalogObjects
    /\ "subtopics" \in DOMAIN ResultDict(t, i) =>
          ResultDict(t, i).subtopics.ref \notin CatalogObjects

\* C7: repeated calls with the same query and the same catalog return the same
\* ordered list (entries, scores, matched subtopics), whatever was called before:
\* every call answers as the first answered call with its query did.
C7_RepeatedCallsAgree ==
    \A t \in Threads :
        Answered(t) =>
            \A s \in seen : s.query = thr[t].query => s.outcome = Outcome(heap, t)

\* a later call got the non-empty list, with a matched subtopic, that the first
\* call with its query got
C7_Witness ==
    \E t \in Threads :
        /\ Returned(t)
        /\ \E s \in seen :
              /\ s.query = thr[t].query
              /\ s.outcome = Outcome(heap, t)
        /\ \E i \in DOMAIN thr[t].result : "matched_subtopics" \in DOMAIN ResultDict(t, i)

\* C8, as claimed: the catalog is never changed and gets no score or
\* matched_subtopics field, and every result is an independent derived copy of its
\* source entry: a dict of its own that shares nothing with the catalog.
C8_Claimed ==
    /\ CatalogUnchanged
    /\ NoAddedFields
    /\ \A t \in Holding : \A i \in DOMAIN thr[t].result :
          DerivedCopy(t, i) /\ SharesNothing(t, i)

\* C8, amended: the catalog is never changed and gets no score or
\* matched_subtopics field, and every result is a derived shallow copy of its source
\* entry: a dict of its own whose keywords and subtopics are the very lists of the
\* catalog entry.
C8_CatalogUnchangedShallowCopies ==
    /\ CatalogUnchanged
    /\ NoAddedFields
    /\ \A t \in Holding : \A i \in DOMAIN thr[t].result :
          /\ DerivedCopy(t, i)
          /\ ResultDict(t, i).keywords.ref \in CatalogObjects

\* after an earlier call was answered, a call came back with two results, one of
\* them with matched subtopics
C8_Witness ==
    \E t \in Threads :
        /\ Returned(t)
        /\ seen # {}
        /\ Len(thr[t].result) >= 2
        /\ \E i \in DOMAIN thr[t].result : "matched_subtopics" \in DOMAIN ResultDict(t, i)

\* what search_syllabus hands thread t when it runs alone on the catalog as loaded
Alone(q, t) ==
    LET o == search_syllabus(heap0, q, data, t)
    IN  [raised |-> o.raised,
         result |-> [i \in DOMAIN o.result |-> DictValue(o.heap, o.heap[o.result[i]])]]

\* C10: however the steps of concurrent calls interleave, every call returns what
\* it returns when run alone, and the shared catalog stays as it was.
C10_ConcurrentAsAlone ==
    /\ CatalogUnchanged
    /\ \A t \in Threads :
          Answered(t) => Outcome(heap, t) = Alone(thr[t].query, t)

\* a call came back with results while another call, with another query, was
\* building its result list
C10_Witness ==
    \E t, u \in Threads :
        /\ t # u
        /\ Returned(t)
        /\ thr[t].result # <<>>
        /\ thr[u].pc = "build"
        /\ thr[u].result # <<>>
        /\ thr[u].query # thr[t].query

(***************************************************************************)
(* tokenize on its own: a request whose text is drawn from every text of   *)
(* up to MaxTextLen characters over TokChars (two letters of a stop word   *)
(* in both cases, a separator, and the two code points that str.lower()    *)
(* turns into ASCII letters), searched in an empty catalog.                *)
(***************************************************************************)
TokChars == {"t", "H", "e", " ", "U+212A", "U+0130"}

Texts == {<<>>} \cup SeqsUpTo(TokChars, MaxTextLen)

InitTok == InitWith(<<>>)

NextTok == \/ \E x \in Texts : Begin(1, x)
           \/ SortStep(1)
           \/ Return(1)
           \/ Discard(1)

SpecTok == InitTok /\ [][NextTok]_vars

\* text[i..j] is a maximal run of ASCII letters of text
IsRun(text, i, j) ==
    /\ 1 <= i /\ i <= j /\ j <= Len(text)
    /\ \A k \in i..j : text[k] \in AsciiLetters
    /\ i = 1 \/ text[i - 1] \notin AsciiLetters
    /\ j = Len(text) \/ text[j + 1] \notin AsciiLetters

\* the maximal runs of ASCII letters of text that start at i or later, in order
RECURSIVE RunsFrom(_, _)
RunsFrom(text, i) ==
    IF i > Len(text) THEN <<>>
    ELSE IF \E j \in i..Len(text) : IsRun(text, i, j)
         THEN LET j == CHOOSE j \in i..Len(text) : IsRun(text, i, j)
              IN  <<SubSeq(text, i, j)>> \o RunsFrom(text, j + 1)
         ELSE RunsFrom(text, i + 1)

\* a run of ASCII letters in lower case
LowerRun(run) ==
    [k \in DOMAIN run |-> IF run[k] \in UpperLetters THEN LowerMap[run[k]] ELSE run[k]]

LowerRuns(text) == [k \in DOMAIN RunsFrom(text, 1) |-> LowerRun(RunsFrom(text, 1)[k])]

ClaimKeeps(run) == Len(run) >= 3 /\ run \notin STOP_WORDS

\* the tokens the claim gives a text
ClaimedTokens(text) == SelectSeq(LowerRuns(text), ClaimKeeps)

\* a thread has tokenized its text and not yet dropped the tokens
Tokenized(t) == thr[t].pc \in {"loop", "build"}

\* C11: tokenize returns, in order and with duplicates, the lower-cased maximal
\* runs of ASCII letters of the input that have at least 3 letters and are no stop
\* word; every other character is a separator; the empty input gives no token.
C11_Claimed ==
    \A t \in Threads :
        Tokenized(t) => thr[t].q_tokens = ClaimedTokens(thr[t].query)

\* C11 on the texts in which every character is its own lower case or an ASCII
\* capital: there tokenize returns what the claim says.
C11_OnPlainTexts ==
    \A t \in Threads :
        (Tokenized(t) /\ \A k \in DOMAIN thr[t].query :
                            thr[t].query[k] \notin {"U+212A", "U+0130"})
            => thr[t].q_tokens = ClaimedTokens(thr[t].query)

\* the catalog entries thread t got back, by position in the catalog
ReturnedRefs(t) ==
    {ResultDict(t, i).syllabus_reference : i \in DOMAIN thr[t].result}

\* C12: the result is the first min(8, n) elements of the n catalog entries of
\* non-zero total score, ordered by score descending, entries of equal score in
\* catalog order; so no omitted scoring entry has a score above a returned one.
C12_PrefixOfStableRanking ==
    \A t \in Threads :
        Returned(t) =>
            LET scoring == Scoring(QueryTokens(t))
                n       == Cardinality(scoring)
            IN  /\ Len(thr[t].result) = IF n < 8 THEN n ELSE 8
                /\ \A i \in DOMAIN thr[t].result :
                      \E m \in scoring :
                          /\ Rank(m, t) = i
                          /\ ResultDict(t, i).syllabus_reference = m
                          /\ ResultDict(t, i).score = ScoreOf(m, t)
                /\ \A m \in scoring \ ReturnedRefs(t) :
                      \A i \in DOMAIN thr[t].result :
                          ScoreOf(m, t) <= ResultDict(t, i).score

\* more than 8 entries scored and 8 came back, two of them of different scores,
\* two of them of the same score, and an omitted one of the score of a returned one
C12_Witness ==
    \E t \in Threads :
        /\ Returned(t)
        /\ Cardinality(Scoring(QueryTokens(t))) > 8
        /\ Len(thr[t].result) = 8
        /\ \E i, j \in DOMAIN thr[t].result :
              i < j /\ ResultDict(t, i).score > ResultDict(t, j).score
        /\ \E i, j \in DOMAIN thr[t].result :
              i < j /\ ResultDict(t, i).score = ResultDict(t, j).score
        /\ \E m \in Scoring(QueryTokens(t)) \ ReturnedRefs(t) :
              ScoreOf(m, t) = ResultDict(t, 8).score

\* thread t has written the response to an upload it accepted and served
Served(t) == req[t].pc = "done" /\ req[t].response.status = 200

\* the text of the image that the request of thread t carried
OwnText(t) == Strip(image_to_string(req[t].image))

\* C13: when upload requests, to either route, are handled concurrently, also
\* with the same client-supplied file name, each request's OCR reads the image
\* this request saved: the OCR text and the syllabus hits of every response are
\* those of its own image.
C13_Claimed ==
    \A t \in Threads :
        /\ req[t].pc \in {"ask", "search", "render"} => req[t].ocr_text = OwnText(t)
        /\ Served(t) =>
              /\ req[t].response.ocr_text = OwnText(t)
              /\ req[t].response.syllabus_hits = Alone(OwnText(t), t).result

====
